---------------------------- MODULE Spec2Model ----------------------------
(***************************************************************************)
(* Model of the ClaimsIQ LangGraph pipeline (src/langgraph_app).           *)
(*                                                                         *)
(* One process serves /process-claim requests.  Each request runs the      *)
(* compiled graph START -> ocr -> extraction -> br001..br006 ->            *)
(* evaluation -> END over its own ClaimsState; the module global           *)
(* LAST_CLAIM_DATA is the only state shared by requests.                   *)
(*                                                                         *)
(* Python values are tagged records so that values of different Python     *)
(* types can be compared: [none], [num], [str], [bool], [bigint], [list].  *)
(***************************************************************************)
EXTENDS Integers, Sequences, FiniteSets, TLC

\* ------------------------------------------------------------------------
\* Bounds of the model
\* ------------------------------------------------------------------------

\* Number of requests the process serves in one behaviour.
MaxRuns == 3

\* The request slots: two requests may be in flight at once.
Inv == {1, 2}

\* ------------------------------------------------------------------------
\* Python values
\* ------------------------------------------------------------------------

None == [none |-> TRUE]
Num(n) == [num |-> n]
Str(s) == [str |-> s]
Bool(b) == [bool |-> b]
\* An int literal too large for a C double (json.loads keeps it an int).
BigInt == [bigint |-> TRUE]
\* A JSON array (here: the empty one).
EmptyList == [list |-> 0]

IsNone(v) == "none" \in DOMAIN v
IsNum(v) == "num" \in DOMAIN v
IsStr(v) == "str" \in DOMAIN v
IsBool(v) == "bool" \in DOMAIN v
IsBigInt(v) == "bigint" \in DOMAIN v
IsList(v) == "list" \in DOMAIN v

\* The numbers whose decimal spelling can occur as a string field value.
SpelledNums == {0, 10, 90, 4000, 30000}

IsNumericStr(s) == \E n \in SpelledNums : ToString(n) = s

\* Python truthiness, bool(v).
Truthy(v) ==
    IF IsNone(v) THEN FALSE
    ELSE IF IsBool(v) THEN v.bool
    ELSE IF IsNum(v) THEN v.num # 0
    ELSE IF IsStr(v) THEN v.str # ""
    ELSE IF IsBigInt(v) THEN TRUE
    ELSE v.list # 0

\* Python float(v): the number, or the exception float() raises.
PyFloat(v) ==
    IF IsNum(v) THEN [ok |-> TRUE, f |-> v.num]
    ELSE IF IsBool(v) THEN [ok |-> TRUE, f |-> IF v.bool THEN 1 ELSE 0]
    ELSE IF IsStr(v) THEN
        IF IsNumericStr(v.str)
        THEN [ok |-> TRUE, f |-> CHOOSE n \in SpelledNums : ToString(n) = v.str]
        ELSE [ok |-> FALSE, exc |-> "ValueError"]
    ELSE IF IsBigInt(v) THEN [ok |-> FALSE, exc |-> "OverflowError"]
    ELSE [ok |-> FALSE, exc |-> "TypeError"]

\* str.lower() on the strings of the model.
Lower(s) ==
    CASE s = "Active" -> "active"
      [] s = "ACTIVE" -> "active"
      [] s = "True" -> "true"
      [] s = "False" -> "false"
      [] s = "None" -> "none"
      [] OTHER -> s

\* Python str(v).
PyStr(v) ==
    IF IsStr(v) THEN v.str
    ELSE IF IsNum(v) THEN ToString(v.num)
    ELSE IF IsBool(v) THEN (IF v.bool THEN "True" ELSE "False")
    ELSE IF IsNone(v) THEN "None"
    ELSE IF IsBigInt(v) THEN "1e400int"
    ELSE "[]"

\* ------------------------------------------------------------------------
\* Business rules engine (nodes.py)
\* ------------------------------------------------------------------------

\* The rule set with the threshold of BR001 raised to 50000.
BUSINESS_RULES_LenientBR001 == <<
    [id |-> "BR001", name |-> "Claim Amount Threshold", field |-> "claimAmount",
     operator |-> "lte", value |-> Num(50000), weight |-> 30],
    [id |-> "BR002", name |-> "High-Value Escalation", field |-> "claimAmount",
     operator |-> "lte", value |-> Num(25000), weight |-> 40],
    [id |-> "BR003", name |-> "Document Completeness", field |-> "completeness",
     operator |-> "gte", value |-> Num(80), weight |-> 25],
    [id |-> "BR004", name |-> "Fraud Indicators", field |-> "fraudScore",
     operator |-> "lte", value |-> Num(30), weight |-> 50],
    [id |-> "BR005", name |-> "Policy Active Status", field |-> "policyStatus",
     operator |-> "eq", value |-> Str("active"), weight |-> 35],
    [id |-> "BR006", name |-> "Duplicate Claim Check", field |-> "isDuplicate",
     operator |-> "eq", value |-> Bool(FALSE), weight |-> 45] >>

BUSINESS_RULES == <<
    [id |-> "BR001", name |-> "Claim Amount Threshold", field |-> "claimAmount",
     operator |-> "lte", value |-> Num(5000), weight |-> 30],
    [id |-> "BR002", name |-> "High-Value Escalation", field |-> "claimAmount",
     operator |-> "lte", value |-> Num(25000), weight |-> 40],
    [id |-> "BR003", name |-> "Document Completeness", field |-> "completeness",
     operator |-> "gte", value |-> Num(80), weight |-> 25],
    [id |-> "BR004", name |-> "Fraud Indicators", field |-> "fraudScore",
     operator |-> "lte", value |-> Num(30), weight |-> 50],
    [id |-> "BR005", name |-> "Policy Active Status", field |-> "policyStatus",
     operator |-> "eq", value |-> Str("active"), weight |-> 35],
    [id |-> "BR006", name |-> "Duplicate Claim Check", field |-> "isDuplicate",
     operator |-> "eq", value |-> Bool(FALSE), weight |-> 45] >>

\* dict.get(field): the value, or None when the key is absent.
Get(data, field) == IF field \in DOMAIN data THEN data[field] ELSE None

\* A raised exception, as the result of a function or node.
Raise(e) == [exc |-> e]
Raised(r) == "exc" \in DOMAIN r

\* The message of str(e) for the exceptions of the model.
NoneGetMsg == "'NoneType' object has no attribute 'get'"
ExcMsg(e) ==
    CASE e = "AttributeError" -> NoneGetMsg
      [] e = "OverflowError" -> "int too large to convert to float"
      [] OTHER -> e

\* The try block with an unrecognized operator compared like eq.
TryCompareUnknownAsEq(op, raw_val, val) ==
    IF op \in {"lte", "lt", "gte", "gt"} THEN
        LET a == PyFloat(raw_val)
            b == PyFloat(val)
        IN  IF ~a.ok THEN Raise(a.exc)
            ELSE IF ~b.ok THEN Raise(b.exc)
            ELSE [passed |->
                    CASE op = "lte" -> a.f <= b.f
                      [] op = "lt" -> a.f < b.f
                      [] op = "gte" -> a.f >= b.f
                      [] op = "gt" -> a.f > b.f]
    ELSE IF op \in {"eq", "ne"} THEN
        IF IsBool(val)
        THEN [passed |-> (Truthy(raw_val) = val.bool)]
        ELSE [passed |-> (Lower(PyStr(raw_val)) = Lower(PyStr(val)))]
    ELSE [passed |-> FALSE]

\* The try block with a string field matched lexically against a boolean.
TryCompareLexicalBool(op, raw_val, val) ==
    IF op \in {"lte", "lt", "gte", "gt"} THEN
        LET a == PyFloat(raw_val)
            b == PyFloat(val)
        IN  IF ~a.ok THEN Raise(a.exc)
            ELSE IF ~b.ok THEN Raise(b.exc)
            ELSE [passed |->
                    CASE op = "lte" -> a.f <= b.f
                      [] op = "lt" -> a.f < b.f
                      [] op = "gte" -> a.f >= b.f
                      [] op = "gt" -> a.f > b.f]
    ELSE IF op = "eq" THEN
        IF IsBool(val) /\ ~IsStr(raw_val)
        THEN [passed |-> (Truthy(raw_val) = val.bool)]
        ELSE [passed |-> (Lower(PyStr(raw_val)) = Lower(PyStr(val)))]
    ELSE [passed |-> FALSE]

\* The body of the try block of verify_single_rule: the value of `passed`,
\* or the exception raised while computing it.
TryCompare(op, raw_val, val) ==
    IF op \in {"lte", "lt", "gte", "gt"} THEN
        LET a == PyFloat(raw_val)
            b == PyFloat(val)
        IN  IF ~a.ok THEN Raise(a.exc)
            ELSE IF ~b.ok THEN Raise(b.exc)
            ELSE [passed |->
                    CASE op = "lte" -> a.f <= b.f
                      [] op = "lt" -> a.f < b.f
                      [] op = "gte" -> a.f >= b.f
                      [] op = "gt" -> a.f > b.f]
    ELSE IF op = "eq" THEN
        IF IsBool(val)
        THEN [passed |-> (Truthy(raw_val) = val.bool)]
        ELSE [passed |-> (Lower(PyStr(raw_val)) = Lower(PyStr(val)))]
    ELSE [passed |-> FALSE]

\* verify_single_rule with the except branch setting actual to "N/A".
verify_single_rule_sentinel(rule, extracted_data) ==
    IF IsNone(extracted_data) THEN Raise("AttributeError")
    ELSE
    LET raw_val == Get(extracted_data, rule.field)
    IN  IF IsNone(raw_val)
        THEN [id |-> rule.id, name |-> rule.name, field |-> rule.field,
              operator |-> rule.operator, value |-> rule.value,
              weight |-> rule.weight, passed |-> FALSE, actual |-> Str("N/A")]
        ELSE
        LET r == TryCompare(rule.operator, raw_val, rule.value)
            passed ==
                IF ~Raised(r) THEN r.passed
                ELSE IF rule.operator = "eq"
                     THEN Lower(PyStr(raw_val)) = Lower(PyStr(rule.value))
                     ELSE FALSE
        IN  IF Raised(r) /\ r.exc \notin {"ValueError", "TypeError"}
            THEN r
            ELSE [id |-> rule.id, name |-> rule.name, field |-> rule.field,
                  operator |-> rule.operator, value |-> rule.value,
                  weight |-> rule.weight, passed |-> passed,
                  actual |-> IF Raised(r) THEN Str("N/A") ELSE raw_val]

\* verify_single_rule(rule, extracted_data): the verdict {**rule, passed,
\* actual}, or the exception that escapes the function.
verify_single_rule(rule, extracted_data) ==
    IF IsNone(extracted_data) THEN Raise("AttributeError")
    ELSE
    LET raw_val == Get(extracted_data, rule.field)
    IN  IF IsNone(raw_val)
        THEN [id |-> rule.id, name |-> rule.name, field |-> rule.field,
              operator |-> rule.operator, value |-> rule.value,
              weight |-> rule.weight, passed |-> FALSE, actual |-> Str("N/A")]
        ELSE
        LET r == TryCompare(rule.operator, raw_val, rule.value)
            passed ==
                IF ~Raised(r) THEN r.passed
                ELSE IF rule.operator = "eq"
                     THEN Lower(PyStr(raw_val)) = Lower(PyStr(rule.value))
                     ELSE FALSE
        IN  IF Raised(r) /\ r.exc \notin {"ValueError", "TypeError"}
            THEN r
            ELSE [id |-> rule.id, name |-> rule.name, field |-> rule.field,
                  operator |-> rule.operator, value |-> rule.value,
                  weight |-> rule.weight, passed |-> passed, actual |-> raw_val]


\* ------------------------------------------------------------------------
\* Graph nodes (nodes.py).  A node's result is [ret |-> the returned state
\* update] or [exc |-> the exception that escapes it]; `read` marks a read
\* of LAST_CLAIM_DATA and `store` carries the value assigned to it.
\* ------------------------------------------------------------------------

\* {**d, k: v}
DictSet(d, k, v) == [f \in DOMAIN d \cup {k} |-> IF f = k THEN v ELSE d[f]]

\* Truthiness of a dict-or-None.
DictTruthy(d) == ~IsNone(d) /\ DOMAIN d # {}

ocr_node(state, content) ==
    IF ~Truthy(content)
    THEN [ret |-> [error |-> Str("OCR failed (Azure)")]]
    ELSE [ret |-> [ocr_content |-> content]]

\* extraction_node recording the extracted claim in LAST_CLAIM_DATA.
extraction_node_recording(state, extracted) ==
    IF Truthy(state.error) THEN [ret |-> state]
    ELSE IF ~DictTruthy(extracted)
    THEN [ret |-> [error |-> Str("Extraction failed (OpenAI)")]]
    ELSE [ret |-> [extracted_data |-> extracted, rule_results |-> <<>>],
          store |-> extracted]

extraction_node(state, extracted) ==
    IF Truthy(state.error) THEN [ret |-> state]
    ELSE IF ~DictTruthy(extracted)
    THEN [ret |-> [error |-> Str("Extraction failed (OpenAI)")]]
    ELSE [ret |-> [extracted_data |-> extracted, rule_results |-> <<>>]]

\* rule_br001_node .. rule_br005_node: k is the index into BUSINESS_RULES.
rule_node(k, state) ==
    LET result == verify_single_rule(BUSINESS_RULES[k], state.extracted_data)
    IN  IF Raised(result) THEN result
        ELSE [ret |-> [rule_results |-> <<result>>]]

\* Mutant: the duplicate check without the test that the number is set.
is_duplicate_unguarded(current_claim_num, last_claim_data) ==
    IF DictTruthy(last_claim_data)
    THEN current_claim_num = Get(last_claim_data, "claimNumber")
    ELSE FALSE

\* The duplicate check of rule_br006_node.
is_duplicate(current_claim_num, last_claim_data) ==
    IF DictTruthy(last_claim_data)
    THEN Truthy(current_claim_num)
         /\ current_claim_num = Get(last_claim_data, "claimNumber")
    ELSE FALSE

\* Mutant: the duplicate check stores the claim it has just compared.
rule_br006_node_recording(state, last_claim_data) ==
    IF IsNone(state.extracted_data) THEN Raise("AttributeError")
    ELSE
    LET current_claim_num == Get(state.extracted_data, "claimNumber")
        dup == is_duplicate(current_claim_num, last_claim_data)
        data_for_rule == DictSet(state.extracted_data, "isDuplicate", Bool(dup))
        result == verify_single_rule(BUSINESS_RULES[6], data_for_rule)
    IN  [ret |-> [rule_results |-> <<result>>], read |-> TRUE,
         store |-> state.extracted_data]

\* rule_br006_node writing isDuplicate into the extracted data itself
\* instead of a copy.
rule_br006_node_in_place(state, last_claim_data) ==
    IF IsNone(state.extracted_data) THEN Raise("AttributeError")
    ELSE
    LET current_claim_num == Get(state.extracted_data, "claimNumber")
        dup == is_duplicate(current_claim_num, last_claim_data)
        data_for_rule == DictSet(state.extracted_data, "isDuplicate", Bool(dup))
        result == verify_single_rule(BUSINESS_RULES[6], data_for_rule)
    IN  IF Raised(result) THEN result
        ELSE [ret |-> [rule_results |-> <<result>>,
                       extracted_data |-> data_for_rule], read |-> TRUE]

rule_br006_node(state, last_claim_data) ==
    IF IsNone(state.extracted_data) THEN Raise("AttributeError")
    ELSE
    LET current_claim_num == Get(state.extracted_data, "claimNumber")
        dup == is_duplicate(current_claim_num, last_claim_data)
        data_for_rule == DictSet(state.extracted_data, "isDuplicate", Bool(dup))
        result == verify_single_rule(BUSINESS_RULES[6], data_for_rule)
    IN  IF Raised(result) THEN result
        ELSE [ret |-> [rule_results |-> <<result>>], read |-> TRUE]

\* Position of a rule id in the ascending order of the id strings.  The ids
\* "BR001".."BR006" are listed in BUSINESS_RULES in ascending string order.
IdKey(id) == CHOOSE k \in 1..Len(BUSINESS_RULES) : BUSINESS_RULES[k].id = id

\* Insert x into the id-sorted sequence s after every element whose key is
\* not larger (stable).
RECURSIVE InsertById(_, _)
InsertById(x, s) ==
    IF s = << >> THEN <<x>>
    ELSE IF IdKey(x.id) < IdKey(Head(s).id) THEN <<x>> \o s
    ELSE <<Head(s)>> \o InsertById(x, Tail(s))

\* Mutant: the results are left in arrival order.
Unsorted(s) == s

\* sorted(results, key=lambda x: x["id"])
RECURSIVE SortedById(_)
SortedById(s) ==
    IF s = << >> THEN << >>
    ELSE InsertById(s[Len(s)], SortedById(SubSeq(s, 1, Len(s) - 1)))

\* Python round(num / den): to nearest, ties to even.
RoundHalfEven(num, den) ==
    LET q == num \div den
        r == num % den
    IN  IF 2 * r < den THEN q
        ELSE IF 2 * r > den THEN q + 1
        ELSE IF q % 2 = 0 THEN q ELSE q + 1

\* The confidence with the percentage truncated instead of rounded.
ConfidenceTruncated(pass_count, total) ==
    IF total # 0 THEN (pass_count * 100) \div total ELSE 0

\* The confidence of evaluation_node for pass_count passed verdicts and
\* total = len(BUSINESS_RULES) configured rules:
\* round((pass_count / total) * 100) if BUSINESS_RULES else 0.
Confidence(pass_count, total) ==
    IF total # 0 THEN RoundHalfEven(pass_count * 100, total) ELSE 0

\* evaluation_node with only BR002 sending a claim to the senior manager.
EvaluateHighValueOnly(rule_results) ==
    LET results == SortedById(rule_results)
        Passed(r) == r.passed
        Failed(r) == ~r.passed
        failed == SelectSeq(results, Failed)
        stp == \A k \in 1..Len(results) : results[k].passed
    IN  [results |-> results,
         routing |-> IF stp THEN "STP" ELSE "ESCALATE",
         confidence |-> Confidence(Len(SelectSeq(results, Passed)),
                                   Len(BUSINESS_RULES)),
         escalationReasons |-> [k \in 1..Len(failed) |-> failed[k].name],
         escalateTo |->
             IF \E k \in 1..Len(results) :
                    results[k].id = "BR002" /\ ~results[k].passed
             THEN "Senior Claims Manager" ELSE "Claims Specialist"]

\* evaluation_node without the sort of line 138: reasons in arrival order.
EvaluateArrivalOrder(rule_results) ==
    LET results == SortedById(rule_results)
        Passed(r) == r.passed
        Failed(r) == ~r.passed
        failed == SelectSeq(rule_results, Failed)
        stp == \A k \in 1..Len(results) : results[k].passed
    IN  [results |-> results,
         routing |-> IF stp THEN "STP" ELSE "ESCALATE",
         confidence |-> Confidence(Len(SelectSeq(results, Passed)),
                                   Len(BUSINESS_RULES)),
         escalationReasons |-> [k \in 1..Len(failed) |-> failed[k].name],
         escalateTo |->
             IF \E k \in 1..Len(results) :
                    results[k].id \in {"BR002", "BR004"} /\ ~results[k].passed
             THEN "Senior Claims Manager" ELSE "Claims Specialist"]

\* The evaluation dict built by evaluation_node from state["rule_results"].
Evaluate(rule_results) ==
    LET results == SortedById(rule_results)
        Passed(r) == r.passed
        Failed(r) == ~r.passed
        failed == SelectSeq(results, Failed)
        stp == \A k \in 1..Len(results) : results[k].passed
        escalation_reasons == [k \in 1..Len(failed) |-> failed[k].name]
        pass_count == Len(SelectSeq(results, Passed))
        confidence == Confidence(pass_count, Len(BUSINESS_RULES))
        routing == IF stp THEN "STP" ELSE "ESCALATE"
        escalate_to0 ==
            IF \E k \in 1..Len(results) :
                   results[k].id \in {"BR002", "BR004"} /\ ~results[k].passed
            THEN "Senior Claims Manager"
            ELSE "Claims Specialist"
        escalate_to ==
            IF ~stp /\ escalate_to0 = "" THEN "Claims Reviewer" ELSE escalate_to0
    IN  [results |-> results, routing |-> routing, confidence |-> confidence,
         escalationReasons |-> escalation_reasons, escalateTo |-> escalate_to]

evaluation_node(state) ==
    IF Truthy(state.error) THEN [ret |-> state]
    ELSE
    LET evaluation == Evaluate(state.rule_results)
    IN  [ret |-> [evaluation |-> evaluation, routing |-> Str(evaluation.routing)],
         store |-> state.extracted_data]

\* ------------------------------------------------------------------------
\* The graph (graph.py) and its execution in supersteps
\* ------------------------------------------------------------------------

RuleNodes == <<"br001", "br002", "br003", "br004", "br005", "br006">>

Nodes == {"ocr", "extraction", "evaluation"} \cup {RuleNodes[k] : k \in 1..6}

\* Mutant: the fan-in edge of br006 is drawn from extraction.
EdgesEarlyFanIn ==
    {<<"START", "ocr">>, <<"ocr", "extraction">>}
    \cup {<<"extraction", RuleNodes[k]>> : k \in 1..6}
    \cup {<<RuleNodes[k], "evaluation">> : k \in 1..5}
    \cup {<<"extraction", "evaluation">>, <<"evaluation", "END">>}

\* Mutant: br006 is chained after br001 instead of fanned out of extraction.
EdgesChained ==
    {<<"START", "ocr">>, <<"ocr", "extraction">>}
    \cup {<<"extraction", RuleNodes[k]>> : k \in 1..5}
    \cup {<<"br001", "br006">>}
    \cup {<<RuleNodes[k], "evaluation">> : k \in 1..6}
    \cup {<<"evaluation", "END">>}

\* Mutant: the rule nodes are fanned out of ocr instead of extraction.
EdgesRulesFromOcr ==
    {<<"START", "ocr">>, <<"ocr", "extraction">>}
    \cup {<<"ocr", RuleNodes[k]>> : k \in 1..6}
    \cup {<<RuleNodes[k], "evaluation">> : k \in 1..6}
    \cup {<<"evaluation", "END">>}

\* workflow.add_edge(a, b) of create_graph.
Edges ==
    {<<"START", "ocr">>, <<"ocr", "extraction">>}
    \cup {<<"extraction", RuleNodes[k]>> : k \in 1..6}
    \cup {<<RuleNodes[k], "evaluation">> : k \in 1..6}
    \cup {<<"evaluation", "END">>}

\* The nodes triggered for the next superstep by the nodes that completed
\* in this one: a node runs once in the step after any of its predecessors.
Successors(done) == {e[2] : e \in {d \in Edges : d[1] \in done}} \ {"END"}

\* The channels of ClaimsState the model follows, as process_claim sets them.
initial_state ==
    [ocr_content |-> None, extracted_data |-> None, rule_results |-> << >>,
     evaluation |-> None, routing |-> None, error |-> None]

\* One node's returned update applied to the channels: rule_results is
\* Annotated[List[dict], operator.add], every other key keeps the last value.
ApplyWrite(st, out) ==
    [k \in DOMAIN st |->
        IF k \in DOMAIN out
        THEN (IF k = "rule_results" THEN st[k] \o out[k] ELSE out[k])
        ELSE st[k]]

\* The updates ws of a superstep applied in the given order of nodes.
RECURSIVE ApplyWrites(_, _, _)
ApplyWrites(st, ws, order) ==
    IF order = << >> THEN st
    ELSE ApplyWrites(ApplyWrite(st, ws[Head(order)]), ws, Tail(order))

\* All orders in which the nodes of S can have completed.
RECURSIVE Perms(_)
Perms(S) ==
    IF S = {} THEN {<< >>}
    ELSE UNION {{<<x>> \o p : p \in Perms(S \ {x})} : x \in S}

\* The nodes of S in the order of their names.
NodeOrder ==
    <<"br001", "br002", "br003", "br004", "br005", "br006",
      "evaluation", "extraction", "ocr">>
TaskOrder(S) == LET In(n) == n \in S IN SelectSeq(NodeOrder, In)

\* The keys of main.py's local `state` that event_generator reads at the end.
initial_local == [extracted_data |-> None, evaluation |-> None, error |-> None]

\* state.update(output) on a node's on_chain_end event.
LocalUpdate(loc, out) ==
    [k \in DOMAIN loc |-> IF k \in DOMAIN out THEN out[k] ELSE loc[k]]

\* The terminal payload event_generator yields.
FinalPayload(raised, msg, loc) ==
    IF raised THEN [error |-> Str(msg)]
    ELSE IF Truthy(loc.error) THEN [error |-> loc.error]
    ELSE [final_result |->
            [extracted_data |-> loc.extracted_data, evaluation |-> loc.evaluation]]

\* ------------------------------------------------------------------------
\* What the external collaborators can return
\* ------------------------------------------------------------------------

ClaimA ==
    [claimNumber |-> Str("C-100"), claimAmount |-> Num(4000),
     completeness |-> Num(90), fraudScore |-> Num(10),
     policyStatus |-> Str("active"), isDuplicate |-> Bool(FALSE)]
ClaimB ==
    [claimNumber |-> Str("C-100"), claimAmount |-> Num(30000),
     completeness |-> Num(90), fraudScore |-> Num(10),
     policyStatus |-> Str("active"), isDuplicate |-> Bool(FALSE)]
\* Another claim number; a non-numeric score, a missing completeness, an
\* isDuplicate of true supplied by the extraction.
ClaimC ==
    [claimNumber |-> Str("C-200"), claimAmount |-> Str("4000"),
     fraudScore |-> Str("high"), policyStatus |-> Str("Active"),
     isDuplicate |-> Bool(TRUE)]
\* An empty claim number; a list where the completeness is expected.
ClaimE ==
    [claimNumber |-> Str(""), claimAmount |-> Num(4000),
     completeness |-> EmptyList, fraudScore |-> Num(10),
     policyStatus |-> Str("active"), isDuplicate |-> Bool(FALSE)]
\* A null claim number.
ClaimN ==
    [claimNumber |-> None, claimAmount |-> Num(4000),
     completeness |-> Num(90), fraudScore |-> Num(90),
     policyStatus |-> Str("inactive"), isDuplicate |-> Bool(FALSE)]
\* An amount beyond the range of a float.
ClaimO ==
    [claimNumber |-> Str("C-100"), claimAmount |-> BigInt,
     completeness |-> Num(90), fraudScore |-> Num(10),
     policyStatus |-> Str("active"), isDuplicate |-> Bool(FALSE)]

EmptyDict == << >>

\* call_azure_layout: the text, or None.
OcrOutcomes == {None, Str("text")}

\* call_openai_extraction: the parsed JSON object, or None.
ExtractionOutcomes ==
    {None, EmptyDict, ClaimA, ClaimB, ClaimC, ClaimE, ClaimN, ClaimO}

\* The outcomes considered when two requests run concurrently.
ConcurrentOutcomes == {None, ClaimA, ClaimB}

\* ------------------------------------------------------------------------
\* State
\* ------------------------------------------------------------------------

VARIABLES
    LAST_CLAIM_DATA,  \* the module global of nodes.py
    pc,               \* per request: idle, running, raised, finished, done
    state,            \* per request: the channels of its ClaimsState
    tasks,            \* per request: nodes of the current superstep still to run
    writes,           \* per request: node -> returned update, current superstep
    local,            \* per request: event_generator's local state
    exc,              \* per request: str(e) of the exception that ended the graph
    response,         \* per request: the terminal payloads yielded
    ran,              \* per request: node -> number of times it was run
    det,              \* per request: its accesses to LAST_CLAIM_DATA, in order
    completed,        \* extracted data of the latest request answered with a
                      \* final result (None before the first)
    started,          \* number of requests started
    call              \* a direct call of one of the pure functions of nodes.py

vars == <<LAST_CLAIM_DATA, pc, state, tasks, writes, local, exc, response,
          ran, det, completed, started, call>>

NoRuns == [n \in Nodes |-> 0]

\* No direct call of a pure function is under way.
NoCall == [fn |-> "none"]

\* The process after import: no request in flight, nothing recorded.
Idle ==
    /\ LAST_CLAIM_DATA = None
    /\ pc = [i \in Inv |-> "idle"]
    /\ state = [i \in Inv |-> initial_state]
    /\ tasks = [i \in Inv |-> {}]
    /\ writes = [i \in Inv |-> << >>]
    /\ local = [i \in Inv |-> initial_local]
    /\ exc = [i \in Inv |-> ""]
    /\ response = [i \in Inv |-> << >>]
    /\ ran = [i \in Inv |-> NoRuns]
    /\ det = [i \in Inv |-> << >>]
    /\ completed = None
    /\ started = 0

Init == Idle /\ call = NoCall

\* ------------------------------------------------------------------------
\* Actions
\* ------------------------------------------------------------------------

\* Mutant: the new request's rule_results starts from the list another
\* request has filled (one initial_state shared by all requests).
StartSharedResults(i, serial) ==
    /\ pc[i] = "idle"
    /\ \A j \in Inv : j < i => pc[j] # "idle"
    /\ serial => \A j \in Inv : pc[j] = "idle"
    /\ started < MaxRuns
    /\ started' = started + 1
    /\ pc' = [pc EXCEPT ![i] = "running"]
    /\ state' = [state EXCEPT ![i] =
                   [initial_state EXCEPT !.rule_results =
                       state[CHOOSE j \in Inv : j # i].rule_results]]
    /\ tasks' = [tasks EXCEPT ![i] = Successors({"START"})]
    /\ local' = [local EXCEPT ![i] = initial_local]
    /\ UNCHANGED <<LAST_CLAIM_DATA, writes, exc, response, ran, det, completed,
                   call>>

\* process_claim: a request arrives and the graph is entered at START.  The
\* request takes the lowest free slot; `serial` admits it only when no other
\* request is in flight.
Start(i, serial) ==
    /\ pc[i] = "idle"
    /\ \A j \in Inv : j < i => pc[j] # "idle"
    /\ serial => \A j \in Inv : pc[j] = "idle"
    /\ started < MaxRuns
    /\ started' = started + 1
    /\ pc' = [pc EXCEPT ![i] = "running"]
    /\ state' = [state EXCEPT ![i] = initial_state]
    /\ tasks' = [tasks EXCEPT ![i] = Successors({"START"})]
    /\ local' = [local EXCEPT ![i] = initial_local]
    /\ UNCHANGED <<LAST_CLAIM_DATA, writes, exc, response, ran, det, completed,
                   call>>

\* Node n of request i runs with result r.  An exception ends the graph run;
\* otherwise the update waits for the end of the superstep and the node's
\* on_chain_end event updates event_generator's local state.
RunNode(i, n, r) ==
    /\ pc[i] = "running"
    /\ n \in tasks[i]
    /\ ran' = [ran EXCEPT ![i][n] = @ + 1]
    /\ IF Raised(r)
       THEN /\ pc' = [pc EXCEPT ![i] = "raised"]
            /\ exc' = [exc EXCEPT ![i] = ExcMsg(r.exc)]
            /\ tasks' = [tasks EXCEPT ![i] = {}]
            /\ writes' = [writes EXCEPT ![i] = << >>]
            /\ UNCHANGED <<local, det, LAST_CLAIM_DATA>>
       ELSE /\ tasks' = [tasks EXCEPT ![i] = @ \ {n}]
            /\ writes' = [writes EXCEPT ![i] = (n :> r.ret) @@ @]
            /\ local' = [local EXCEPT ![i] = LocalUpdate(@, r.ret)]
            /\ det' = [det EXCEPT ![i] =
                        @ \o (IF "read" \in DOMAIN r THEN <<"read">> ELSE << >>)
                          \o (IF "store" \in DOMAIN r THEN <<"record">> ELSE << >>)]
            /\ LAST_CLAIM_DATA' =
                 IF "store" \in DOMAIN r THEN r.store ELSE LAST_CLAIM_DATA
            /\ UNCHANGED <<pc, exc>>
    /\ UNCHANGED <<state, response, completed, started, call>>

Ocr(i) ==
    \E content \in OcrOutcomes : RunNode(i, "ocr", ocr_node(state[i], content))

Extraction(i, outcomes) ==
    \E extracted \in outcomes :
        RunNode(i, "extraction", extraction_node(state[i], extracted))

Rule(i, k) == RunNode(i, RuleNodes[k], rule_node(k, state[i]))

RuleBr006(i) == RunNode(i, "br006", rule_br006_node(state[i], LAST_CLAIM_DATA))

Evaluation(i) == RunNode(i, "evaluation", evaluation_node(state[i]))

\* End of a superstep: every node of the step has returned; their updates
\* are applied in `order` and the successors form the next superstep.
Commit(i, order) ==
    /\ pc[i] = "running"
    /\ tasks[i] = {}
    /\ DOMAIN writes[i] # {}
    /\ state' = [state EXCEPT ![i] = ApplyWrites(@, writes[i], order)]
    /\ writes' = [writes EXCEPT ![i] = << >>]
    /\ tasks' = [tasks EXCEPT ![i] = Successors(DOMAIN writes[i])]
    /\ pc' = [pc EXCEPT ![i] =
                IF Successors(DOMAIN writes[i]) = {} THEN "finished" ELSE "running"]
    /\ UNCHANGED <<LAST_CLAIM_DATA, local, exc, response, ran, det, completed,
                   started, call>>

\* event_generator after the event loop, or its except branch: the terminal
\* payload is yielded.
Deliver(i) ==
    /\ pc[i] \in {"finished", "raised"}
    /\ response' = [response EXCEPT ![i] =
                      Append(@, FinalPayload(pc[i] = "raised", exc[i], local[i]))]
    /\ pc' = [pc EXCEPT ![i] = "done"]
    /\ completed' =
         LET payload == FinalPayload(pc[i] = "raised", exc[i], local[i])
         IN  IF "final_result" \in DOMAIN payload
             THEN payload.final_result.extracted_data
             ELSE completed
    /\ UNCHANGED <<LAST_CLAIM_DATA, state, tasks, writes, local, exc, ran, det,
                   started, call>>

\* The response stream ends; the request's state is dropped.
Finish(i) ==
    /\ pc[i] = "done"
    /\ pc' = [pc EXCEPT ![i] = "idle"]
    /\ state' = [state EXCEPT ![i] = initial_state]
    /\ local' = [local EXCEPT ![i] = initial_local]
    /\ exc' = [exc EXCEPT ![i] = ""]
    /\ response' = [response EXCEPT ![i] = << >>]
    /\ ran' = [ran EXCEPT ![i] = NoRuns]
    /\ det' = [det EXCEPT ![i] = << >>]
    /\ UNCHANGED <<LAST_CLAIM_DATA, tasks, writes, completed, started, call>>

\* Requests served one after another; the updates of a superstep arrive in
\* any order.
Next ==
    \E i \in Inv :
        \/ Start(i, TRUE)
        \/ Ocr(i)
        \/ Extraction(i, ExtractionOutcomes)
        \/ \E k \in 1..5 : Rule(i, k)
        \/ RuleBr006(i)
        \/ Evaluation(i)
        \/ \E order \in Perms(DOMAIN writes[i]) : Commit(i, order)
        \/ Deliver(i)
        \/ Finish(i)

Spec == Init /\ [][Next]_vars

\* Requests in flight together; the updates of a superstep are applied in
\* the order of the node names.
NextConcurrent ==
    \E i \in Inv :
        \/ Start(i, FALSE)
        \/ Ocr(i)
        \/ Extraction(i, ConcurrentOutcomes)
        \/ \E k \in 1..5 : Rule(i, k)
        \/ RuleBr006(i)
        \/ Evaluation(i)
        \/ Commit(i, TaskOrder(DOMAIN writes[i]))
        \/ Deliver(i)
        \/ Finish(i)

SpecConcurrent == Init /\ [][NextConcurrent]_vars

\* ------------------------------------------------------------------------
\* The pure functions of nodes.py called directly on drawn inputs
\* ------------------------------------------------------------------------

\* Operators a rule descriptor can carry: the five recognized ones and an
\* unrecognized one.
UnitOperators == {"lte", "lt", "gte", "gt", "eq", "ne"}

\* Comparison values of a rule descriptor: number, string, booleans.
UnitRuleValues == {Num(5000), Str("active"), Str("4000"), Bool(TRUE), Bool(FALSE)}

UnitRules ==
    {[id |-> "BR00X", name |-> "Unit Rule", field |-> "f", operator |-> op,
      value |-> val, weight |-> 1] : op \in UnitOperators, val \in UnitRuleValues}

\* Values the field of the rule can have in the extracted data.
UnitFieldValues ==
    {None, Num(0), Num(4000), Num(5000), Num(30000), Str("4000"), Str("abc"),
     Str("active"), Str("Active"), Str("true"), Str("True"), Str("false"),
     Str(""), Bool(TRUE), Bool(FALSE), BigInt, EmptyList}

\* Field mappings: the field absent, or present with one of the values.
UnitData ==
    {EmptyDict, [g |-> Num(1)]} \cup {[f |-> v] : v \in UnitFieldValues}

\* The verdict list the six rule stages leave for given outcomes, in the
\* configured order of the rules.
UnitVerdicts(passes) ==
    [k \in 1..Len(BUSINESS_RULES) |->
        [id |-> BUSINESS_RULES[k].id, name |-> BUSINESS_RULES[k].name,
         field |-> BUSINESS_RULES[k].field, operator |-> BUSINESS_RULES[k].operator,
         value |-> BUSINESS_RULES[k].value, weight |-> BUSINESS_RULES[k].weight,
         passed |-> passes[k], actual |-> Str("x")]]

\* Some arrival orders of the six verdicts.
UnitOrders == {<<1, 2, 3, 4, 5, 6>>, <<6, 5, 4, 3, 2, 1>>, <<3, 1, 6, 2, 5, 4>>}

UnitRuleResults ==
    {[n \in 1..Len(BUSINESS_RULES) |-> UnitVerdicts(passes)[order[n]]] :
        passes \in [1..Len(BUSINESS_RULES) -> BOOLEAN], order \in UnitOrders}

UnitCalls ==
    {[fn |-> "verify", rule |-> r, data |-> d, done |-> FALSE, out |-> None] :
        r \in UnitRules, d \in UnitData}
    \cup {[fn |-> "evaluate", rule_results |-> rr, done |-> FALSE, out |-> None] :
        rr \in UnitRuleResults}
    \cup {[fn |-> "confidence", pass_count |-> p, total |-> t, done |-> FALSE,
           out |-> None] :
        p \in 0..Len(BUSINESS_RULES), t \in 0..Len(BUSINESS_RULES)}

InitUnit == Idle /\ call \in UnitCalls

\* The request-handling part of the state, which a direct call leaves alone.
workflow == <<LAST_CLAIM_DATA, pc, state, tasks, writes, local, exc, response,
              ran, det, completed, started>>

\* verify_single_rule(rule, extracted_data) is called.
VerifyCall ==
    /\ call.fn = "verify" /\ ~call.done
    /\ call' = [call EXCEPT !.done = TRUE,
                            !.out = verify_single_rule(call.rule, call.data)]
    /\ UNCHANGED workflow

\* The body of evaluation_node is applied to a list of verdicts.
EvaluateCall ==
    /\ call.fn = "evaluate" /\ ~call.done
    /\ call' = [call EXCEPT !.done = TRUE, !.out = Evaluate(call.rule_results)]
    /\ UNCHANGED workflow

\* The confidence expression of evaluation_node is computed.
ConfidenceCall ==
    /\ call.fn = "confidence" /\ ~call.done
    /\ call.pass_count <= call.total
    /\ call' = [call EXCEPT !.done = TRUE,
                            !.out = Num(Confidence(call.pass_count, call.total))]
    /\ UNCHANGED workflow

NextUnit ==
    \/ VerifyCall
    \/ EvaluateCall
    \/ ConfidenceCall

SpecUnit == InitUnit /\ [][NextUnit]_vars

\* ------------------------------------------------------------------------
\* Properties
\* ------------------------------------------------------------------------

Range(s) == {s[k] : k \in 1..Len(s)}

\* The requests whose graph is running or has run (not idle).
Active == {i \in Inv : pc[i] # "idle"}

\* rule_results holds exactly one verdict for each configured rule id.
OnePerRule(rr) ==
    /\ Len(rr) = Len(BUSINESS_RULES)
    /\ \A k \in 1..Len(BUSINESS_RULES) :
           Cardinality({j \in 1..Len(rr) : rr[j].id = BUSINESS_RULES[k].id}) = 1

\* Every rule stage of request i has run and returned.
RulesTerminal(i) ==
    \A k \in 1..6 : ran[i][RuleNodes[k]] = 1 /\ RuleNodes[k] \notin tasks[i]

\* C1: the aggregation stage starts only after all six rule stages have
\* reached a terminal state, and when it starts (it is scheduled, or has
\* run) rule_results holds exactly one verdict per configured rule id.
C1_FanInComplete ==
    \A i \in Inv :
        ("evaluation" \in tasks[i] \/ ran[i]["evaluation"] > 0)
            => RulesTerminal(i) /\ OnePerRule(state[i].rule_results)

\* The aggregation stage of a request is about to start.
C1_Witness ==
    \E i \in Inv : "evaluation" \in tasks[i] /\ Len(state[i].rule_results) = 6

\* The verdicts of rr arranged in the configured order of the rules.
Canonical(rr) ==
    [k \in 1..Len(BUSINESS_RULES) |->
        CHOOSE v \in Range(rr) : v.id = BUSINESS_RULES[k].id]

\* C2: whatever the arrival order of the verdicts in rule_results, the
\* evaluation's results are the K verdicts in ascending rule-id order and
\* the whole evaluation is the one obtained from the verdicts taken in the
\* configured order, so it is the same for every arrival order.
C2_OrderIndependent ==
    \A i \in Inv :
        ~IsNone(state[i].evaluation) =>
            LET ev == state[i].evaluation
                canon == Canonical(state[i].rule_results)
            IN  /\ Len(ev.results) = Len(BUSINESS_RULES)
                /\ \A k \in 1..Len(ev.results) :
                       ev.results[k].id = BUSINESS_RULES[k].id
                /\ ev.results = canon
                /\ ev = Evaluate(canon)

\* An evaluation was produced from verdicts that arrived with BR006 first
\* and BR001 last.
C2_Witness ==
    \E i \in Inv :
        /\ ~IsNone(state[i].evaluation)
        /\ state[i].rule_results[1].id = "BR006"
        /\ state[i].rule_results[6].id = "BR001"

\* An extraction stage of request i has reported failure.
UpstreamFailed(i) == Truthy(local[i].error)

\* C3: once ocr_node or extraction_node has reported failure, no rule stage
\* of that request runs, no verdict is added to rule_results, no evaluation
\* is computed, and the request ends with that failure as its error.
C3_UpstreamShortCircuit ==
    \A i \in Inv :
        UpstreamFailed(i) =>
            /\ \A k \in 1..6 : ran[i][RuleNodes[k]] = 0
            /\ ran[i]["evaluation"] = 0
            /\ state[i].rule_results = << >>
            /\ IsNone(local[i].evaluation)
            /\ pc[i] = "done" => response[i] = <<[error |-> local[i].error]>>

\* C4: a finished request has delivered exactly one terminal payload, a
\* final result with a complete evaluation or an error, and when an
\* extraction stage failed the error is that stage's failure.
C4_OneTerminalOutcome ==
    \A i \in Inv :
        pc[i] = "done" =>
            /\ Len(response[i]) = 1
            /\ \/ /\ "final_result" \in DOMAIN response[i][1]
                  /\ ~IsNone(response[i][1].final_result.evaluation)
                  /\ OnePerRule(response[i][1].final_result.evaluation.results)
               \/ "error" \in DOMAIN response[i][1]
            /\ UpstreamFailed(i) => response[i][1] = [error |-> local[i].error]

\* C5: with the fields extracted, no rule stage's internal failure aborts
\* the request: the graph run never ends in an exception, and a finished
\* request carries an evaluation with one verdict per rule.
C5_RuleFailureContained ==
    \A i \in Inv :
        DictTruthy(state[i].extracted_data) =>
            /\ pc[i] # "raised"
            /\ pc[i] = "done" =>
                   /\ ~IsNone(local[i].evaluation)
                   /\ OnePerRule(local[i].evaluation.results)

\* Request i has its BR006 verdict (returned, or already in rule_results).
HasBr006(i) ==
    \/ "br006" \in DOMAIN writes[i]
    \/ \E v \in Range(state[i].rule_results) : v.id = "BR006"

Br006Verdict(i) ==
    IF "br006" \in DOMAIN writes[i]
    THEN writes[i]["br006"].rule_results[1]
    ELSE CHOOSE v \in Range(state[i].rule_results) : v.id = "BR006"

\* Request i has its BR006 verdict and has not been answered yet, so
\* `completed` still is the latest earlier request that completed.
Br006Judged(i) == pc[i] \in {"running", "finished"} /\ HasBr006(i)

ClaimNumber(i) == Get(state[i].extracted_data, "claimNumber")

\* C6 as stated: with requests served one after another, BR006 is failed
\* (isDuplicate true) exactly when the claimNumber is present (not null)
\* and equal to the claimNumber of the latest earlier request that
\* completed aggregation.
C6_DuplicateIffPresentEqual ==
    \A i \in Inv :
        Br006Judged(i) =>
            LET dup == /\ ~IsNone(ClaimNumber(i))
                       /\ ~IsNone(completed)
                       /\ ClaimNumber(i) = Get(completed, "claimNumber")
            IN  /\ Br006Verdict(i).passed = ~dup
                /\ Br006Verdict(i).actual = Bool(dup)

\* C6 amended: with requests served one after another, BR006 is failed
\* (isDuplicate true) exactly when the claimNumber is present and not
\* empty (truthy) and equal to the claimNumber of the latest earlier
\* request that completed aggregation; the first request never fails it.
C6_DuplicateIffTruthyEqual ==
    \A i \in Inv :
        Br006Judged(i) =>
            LET dup == /\ Truthy(ClaimNumber(i))
                       /\ ~IsNone(completed)
                       /\ ClaimNumber(i) = Get(completed, "claimNumber")
            IN  /\ Br006Verdict(i).passed = ~dup
                /\ Br006Verdict(i).actual = Bool(dup)

\* Scenario C: a request is judged a duplicate of the one before it.
C6_Witness ==
    \E i \in Inv :
        /\ Br006Judged(i)
        /\ ~Br006Verdict(i).passed
        /\ ClaimNumber(i) = Str("C-100")
        /\ completed \in {ClaimA, ClaimB}

\* C7: the accesses of concurrent requests to LAST_CLAIM_DATA are
\* serialized (no request reads between another's read and record), and of
\* two requests with the same claimNumber that both completed aggregation
\* at least one has BR006 failed.
C7_DetectorSerialized ==
    \A i, j \in Inv :
        i # j =>
            /\ ~(det[i] = <<"read">> /\ det[j] = <<"read">>)
            /\ ( /\ ~IsNone(state[i].evaluation)
                 /\ ~IsNone(state[j].evaluation)
                 /\ Truthy(ClaimNumber(i))
                 /\ ClaimNumber(i) = ClaimNumber(j) )
               => \/ ~state[i].evaluation.results[6].passed
                  \/ ~state[j].evaluation.results[6].passed

\* Verdict v is what request i's own rule stages produce from its own
\* extracted data.
OwnVerdict(i, v) ==
    \E k \in 1..6 :
        /\ v.id = BUSINESS_RULES[k].id
        /\ IF k < 6
           THEN v = verify_single_rule(BUSINESS_RULES[k], state[i].extracted_data)
           ELSE \E b \in BOOLEAN :
                    v = verify_single_rule(BUSINESS_RULES[6],
                            DictSet(state[i].extracted_data, "isDuplicate", Bool(b)))

\* The verdicts request i holds: in rule_results and in its evaluation.
HeldVerdicts(i) ==
    Range(state[i].rule_results)
    \cup (IF IsNone(state[i].evaluation) THEN {}
          ELSE Range(state[i].evaluation.results))

\* C8: with requests running concurrently, every verdict in a request's
\* rule_results and results was produced by that request's own rule stages
\* from its own extracted data, at most one per rule.
C8_ResultsPerRequest ==
    \A i \in Inv :
        /\ \A v \in HeldVerdicts(i) : OwnVerdict(i, v)
        /\ Len(state[i].rule_results) <= Len(BUSINESS_RULES)
        /\ \A k \in 1..6 :
               Cardinality({n \in 1..Len(state[i].rule_results) :
                   state[i].rule_results[n].id = BUSINESS_RULES[k].id}) <= 1

\* Two requests with different extracted data hold verdicts at once.
C8_Witness ==
    \E i, j \in Inv :
        /\ state[i].extracted_data = ClaimA
        /\ state[j].extracted_data = ClaimB
        /\ Len(state[i].rule_results) = 6
        /\ Len(state[j].rule_results) = 6
        /\ ~IsNone(state[i].evaluation)

\* C9: a request records into LAST_CLAIM_DATA exactly once, in the run of
\* evaluation_node that produces its evaluation and not otherwise; its one
\* read in BR006 comes before that record, and what it records is its own
\* extracted data.
C9_RecordOnceAfterRead ==
    \A i \in Inv :
        /\ det[i] \in {<< >>, <<"read">>, <<"read", "record">>}
        /\ (det[i] = <<"read", "record">>) <=> ~IsNone(local[i].evaluation)
        /\ det[i] = <<"read", "record">> =>
               LAST_CLAIM_DATA = state[i].extracted_data

\* A request has read in BR006 and recorded in evaluation_node.
C9_Witness ==
    \E i \in Inv :
        /\ det[i] = <<"read", "record">>
        /\ ~IsNone(local[i].evaluation)
        /\ LAST_CLAIM_DATA = ClaimB

\* C10: evaluation_node runs at most once in a request, exactly once in a
\* request whose graph run ends normally, and when it has run every other
\* stage has run once and nothing is left to run.
C10_EvaluationOnceAndLast ==
    \A i \in Inv :
        /\ ran[i]["evaluation"] <= 1
        /\ pc[i] = "finished" => ran[i]["evaluation"] = 1
        /\ ran[i]["evaluation"] = 1 =>
               /\ tasks[i] = {}
               /\ \A n \in Nodes : ran[i][n] = 1

\* A graph run has ended normally with its evaluation.
C10_Witness ==
    \E i \in Inv :
        /\ pc[i] = "finished"
        /\ ran[i]["evaluation"] = 1
        /\ ~IsNone(state[i].evaluation)


\* ------------------------------------------------------------------------
\* C11: routing and escalation reasons
\* ------------------------------------------------------------------------

\* A direct call of evaluation_node's body has returned.
Evaluated == call.fn = "evaluate" /\ call.done

\* The verdict the rule with the given id has in a list of verdicts.
VerdictOf(rule_results, id) ==
    rule_results[CHOOSE n \in 1..Len(rule_results) : rule_results[n].id = id]

\* The names of the first k configured rules (ascending rule id) whose
\* verdict in rule_results is failed.
RECURSIVE FailedNames(_, _)
FailedNames(rule_results, k) ==
    IF k = 0 THEN << >>
    ELSE IF VerdictOf(rule_results, BUSINESS_RULES[k].id).passed
         THEN FailedNames(rule_results, k - 1)
         ELSE Append(FailedNames(rule_results, k - 1), BUSINESS_RULES[k].name)

\* C11: every evaluation result has routing "STP" if and only if every
\* verdict in its results passed, and "ESCALATE" otherwise; its
\* escalationReasons are exactly the names of the failed verdicts in
\* ascending rule-id order, whatever order the verdicts arrived in.
C11_RoutingAndReasons ==
    Evaluated =>
        /\ call.out.routing \in {"STP", "ESCALATE"}
        /\ call.out.routing = "STP" <=>
               \A k \in 1..Len(call.out.results) : call.out.results[k].passed
        /\ call.out.escalationReasons =
               FailedNames(call.rule_results, Len(BUSINESS_RULES))

\* Verdicts that arrived in descending rule-id order with two failures
\* were evaluated: ESCALATE with two reasons.
C11_Witness ==
    /\ Evaluated
    /\ call.rule_results[1].id = "BR006"
    /\ call.out.routing = "ESCALATE"
    /\ call.out.escalationReasons =
           <<"Claim Amount Threshold", "Fraud Indicators">>

\* ------------------------------------------------------------------------
\* C12: Scenario B
\* ------------------------------------------------------------------------

\* Request i has been evaluated on the fields of Scenario B with the
\* detector holding no claim of the same number (BR006 computed
\* isDuplicate = False).
ScenarioB(i) ==
    /\ ~IsNone(state[i].evaluation)
    /\ state[i].extracted_data = ClaimB
    /\ VerdictOf(state[i].evaluation.results, "BR006").actual = Bool(FALSE)

\* C12 as stated: Scenario B gives routing "ESCALATE", escalateTo "Senior
\* Claims Manager" and escalationReasons exactly ["High-Value Escalation"].
C12_ScenarioB_OneReason ==
    \A i \in Inv :
        ScenarioB(i) =>
            /\ state[i].evaluation.routing = "ESCALATE"
            /\ state[i].evaluation.escalateTo = "Senior Claims Manager"
            /\ state[i].evaluation.escalationReasons = <<"High-Value Escalation">>

\* C12 amended: Scenario B gives routing "ESCALATE", escalateTo "Senior
\* Claims Manager", and escalationReasons exactly ["Claim Amount Threshold",
\* "High-Value Escalation"], because 30000 fails BR001 (lte 5000) as well as
\* BR002 (lte 25000); the confidence is 67.
C12_ScenarioB_TwoReasons ==
    \A i \in Inv :
        ScenarioB(i) =>
            /\ state[i].evaluation.routing = "ESCALATE"
            /\ state[i].evaluation.escalateTo = "Senior Claims Manager"
            /\ state[i].evaluation.escalationReasons =
                   <<"Claim Amount Threshold", "High-Value Escalation">>
            /\ state[i].evaluation.confidence = 67
            /\ state[i].routing = Str("ESCALATE")

\* A request with the fields of Scenario B has been evaluated with no
\* duplicate recorded.
C12_Witness == \E i \in Inv : ScenarioB(i)

\* ------------------------------------------------------------------------
\* C13: confidence
\* ------------------------------------------------------------------------

\* c is an integer nearest to 100 * p / k (k > 0).
NearestPercent(c, p, k) ==
    /\ c \in 0..100
    /\ 2 * (k * c - 100 * p) <= k
    /\ 2 * (100 * p - k * c) <= k

\* C13: the confidence of every evaluation result is an integer in 0..100
\* equal to round(100 * passedCount / K) for K configured rules (K = 6:
\* 5 passed gives 83, all passed 100, none passed 0), and the confidence
\* expression gives 0 when K is 0.
C13_Confidence ==
    /\ Evaluated =>
          LET Passed(r) == r.passed
              passedCount == Len(SelectSeq(call.rule_results, Passed))
          IN  /\ NearestPercent(call.out.confidence, passedCount,
                                Len(BUSINESS_RULES))
              /\ passedCount = 5 => call.out.confidence = 83
              /\ passedCount = 6 => call.out.confidence = 100
              /\ passedCount = 0 => call.out.confidence = 0
    /\ (call.fn = "confidence" /\ call.done) =>
          IF call.total = 0 THEN call.out = Num(0)
          ELSE NearestPercent(call.out.num, call.pass_count, call.total)

\* Five of six verdicts passed and the confidence came out as 83.
C13_Witness == Evaluated /\ call.out.confidence = 83

\* The confidence expression was computed for an empty rule set.
C13_WitnessNoRules == call.fn = "confidence" /\ call.done /\ call.total = 0

\* ------------------------------------------------------------------------
\* C14: escalation target
\* ------------------------------------------------------------------------

\* The verdict of the rule with the given id is failed in the call's input.
FailedIn(id) == ~VerdictOf(call.rule_results, id).passed

\* C14: escalateTo is "Senior Claims Manager" exactly when the verdict of
\* BR002 or of BR004 is failed and "Claims Specialist" in every other case,
\* routing "STP" included; "Claims Reviewer" is never produced.
C14_EscalateTo ==
    Evaluated =>
        /\ call.out.escalateTo =
               IF FailedIn("BR002") \/ FailedIn("BR004")
               THEN "Senior Claims Manager" ELSE "Claims Specialist"
        /\ call.out.routing = "STP" => call.out.escalateTo = "Claims Specialist"
        /\ call.out.escalateTo # "Claims Reviewer"

\* Only the fraud rule failed and the claim goes to the senior manager.
C14_Witness ==
    /\ Evaluated
    /\ FailedIn("BR004") /\ ~FailedIn("BR002")
    /\ call.out.escalationReasons = <<"Fraud Indicators">>
    /\ call.out.escalateTo = "Senior Claims Manager"

\* A claim escalated for rules other than BR002 and BR004 goes to the
\* specialist.
C14_WitnessSpecialist ==
    /\ Evaluated
    /\ call.out.routing = "ESCALATE"
    /\ call.out.escalateTo = "Claims Specialist"

\* ------------------------------------------------------------------------
\* C15: absent fields and unrecognized operators
\* ------------------------------------------------------------------------

\* A direct call of verify_single_rule has returned or raised.
Verified == call.fn = "verify" /\ call.done

\* The field of the call's rule is not a key of the call's field mapping.
FieldAbsent == call.rule.field \notin DOMAIN call.data

\* C15: for every operator (lte, lt, gte, gt, eq or an unrecognized one) a
\* rule whose field is absent from the field mapping gets a verdict with
\* passed = false and actual "N/A"; and a rule whose operator is none of
\* the five recognized ones gets a failed verdict for every field value.
C15_AbsentOrUnknownFails ==
    Verified =>
        /\ FieldAbsent =>
               /\ ~Raised(call.out)
               /\ call.out.passed = FALSE
               /\ call.out.actual = Str("N/A")
        /\ call.rule.operator \notin {"lte", "lt", "gte", "gt", "eq"} =>
               /\ ~Raised(call.out)
               /\ call.out.passed = FALSE

\* A rule with an unrecognized operator met an absent field.
C15_Witness ==
    /\ Verified
    /\ FieldAbsent
    /\ call.rule.operator = "ne"
    /\ call.out.actual = Str("N/A")

\* A rule with an unrecognized operator met a field whose value has the
\* string form of the comparison value, and failed.
C15_WitnessUnknownOp ==
    /\ Verified
    /\ call.rule.operator = "ne"
    /\ call.rule.value = Str("active")
    /\ call.data = [f |-> Str("active")]
    /\ ~call.out.passed

\* ------------------------------------------------------------------------
\* C16: the eq operator
\* ------------------------------------------------------------------------

\* The call's rule is an eq rule and its field has a value.
EqOnValue ==
    /\ Verified
    /\ call.rule.operator = "eq"
    /\ ~FieldAbsent
    /\ ~IsNone(call.data[call.rule.field])

\* C16: an eq rule whose comparison value is a boolean passes if and only
\* if the field value coerced to boolean equals it (the string "false" is
\* truthy, so it fails against False and passes against True); an eq rule
\* with a non-boolean comparison value passes if and only if the lower-cased
\* string forms of the field value and the comparison value are equal.
C16_EqSemantics ==
    EqOnValue =>
        LET raw_val == call.data[call.rule.field]
            val == call.rule.value
        IN  /\ ~Raised(call.out)
            /\ IsBool(val) => (call.out.passed <=> (Truthy(raw_val) = val.bool))
            /\ ~IsBool(val) =>
                   (call.out.passed <=> (Lower(PyStr(raw_val)) = Lower(PyStr(val))))
            /\ (IsBool(val) /\ raw_val \in {Str("true"), Str("True"), Str("false")})
                   => (call.out.passed <=> val.bool)
            /\ (IsBool(val) /\ raw_val \in {Str(""), Num(0)})
                   => (call.out.passed <=> ~val.bool)
            /\ (val = Str("active") /\ raw_val \in {Str("active"), Str("Active")})
                   => call.out.passed
            /\ (val = Str("4000") /\ raw_val \in {Str("4000"), Num(4000)})
                   => call.out.passed
            /\ (val = Str("active") /\ raw_val \in {Str("abc"), Bool(TRUE), Num(0)})
                   => ~call.out.passed

\* The string "false" was compared with the boolean False and, being
\* truthy, did not pass.
C16_Witness ==
    /\ EqOnValue
    /\ call.rule.value = Bool(FALSE)
    /\ call.data[call.rule.field] = Str("false")
    /\ ~call.out.passed

\* "Active" was compared with "active" and passed.
C16_WitnessString ==
    /\ EqOnValue
    /\ call.rule.value = Str("active")
    /\ call.data[call.rule.field] = Str("Active")
    /\ call.out.passed

\* ------------------------------------------------------------------------
\* C17: values that cannot be compared as numbers
\* ------------------------------------------------------------------------

NumericOps == {"lte", "lt", "gte", "gt"}

\* v is present and float(v) raises.
NonCoercible(v) == ~IsNone(v) /\ ~PyFloat(v).ok

\* v is present and not numeric: a string that spells no number, or a list.
NonNumeric(v) == (IsStr(v) /\ ~IsNumericStr(v.str)) \/ IsList(v)

\* The configured rules with a numeric operator whose field in the
\* extracted data of request i satisfies Bad.
RulesOn(i, Bad(_)) ==
    IF ~DictTruthy(state[i].extracted_data) THEN {}
    ELSE {k \in 1..Len(BUSINESS_RULES) :
            /\ BUSINESS_RULES[k].operator \in NumericOps
            /\ Bad(Get(state[i].extracted_data, BUSINESS_RULES[k].field))}

\* The verdicts request i holds for rule k.
VerdictsFor(i, k) ==
    {v \in Range(state[i].rule_results) : v.id = BUSINESS_RULES[k].id}

\* C17 as stated: a rule under lte, lt, gte or gt whose field value is
\* present but not coercible to a number resolves to a failed verdict with
\* actual value "N/A", and the invocation is not aborted.
C17_NonCoercibleGivesNA ==
    \A i \in Inv : \A k \in RulesOn(i, NonCoercible) :
        /\ pc[i] # "raised"
        /\ \A v \in VerdictsFor(i, k) : ~v.passed /\ v.actual = Str("N/A")

\* C17 amended: a rule under lte, lt, gte or gt whose field value is
\* present but not numeric (a string that spells no number, a list)
\* resolves to a failed verdict whose actual value is the raw field value,
\* not "N/A"; the rule stage raises nothing, and the evaluation result of
\* the invocation holds that verdict and names the rule among its
\* escalation reasons, with routing "ESCALATE".
C17_NonNumericFailsWithRawValue ==
    \A i \in Inv : \A k \in RulesOn(i, NonNumeric) :
        LET raw_val == Get(state[i].extracted_data, BUSINESS_RULES[k].field)
        IN  /\ (\A f \in DOMAIN state[i].extracted_data :
                    ~IsBigInt(state[i].extracted_data[f])) => pc[i] # "raised"
            /\ \A v \in VerdictsFor(i, k) :
                   ~v.passed /\ v.actual = raw_val /\ v.actual # Str("N/A")
            /\ ran[i]["evaluation"] > 0 => VerdictsFor(i, k) # {}
            /\ ~IsNone(state[i].evaluation) =>
                   /\ VerdictsFor(i, k) \subseteq Range(state[i].evaluation.results)
                   /\ BUSINESS_RULES[k].name \in
                          Range(state[i].evaluation.escalationReasons)
                   /\ state[i].evaluation.routing = "ESCALATE"
                   /\ Len(state[i].evaluation.results) = Len(BUSINESS_RULES)

\* A request whose fraudScore is the string "high" has been evaluated.
C17_Witness ==
    \E i \in Inv :
        /\ ~IsNone(state[i].evaluation)
        /\ state[i].extracted_data = ClaimC
        /\ RulesOn(i, NonNumeric) = {4}
        /\ VerdictOf(state[i].evaluation.results, "BR004").actual = Str("high")

\* A request whose completeness is a list has been evaluated.
C17_WitnessList ==
    \E i \in Inv :
        /\ ~IsNone(state[i].evaluation)
        /\ RulesOn(i, NonNumeric) = {3}
        /\ VerdictOf(state[i].evaluation.results, "BR003").actual = EmptyList

\* ------------------------------------------------------------------------
\* C18: order of the stages
\* ------------------------------------------------------------------------

RuleStages == {RuleNodes[k] : k \in 1..6}

\* Node n of request i has run and its update has been applied.
Completed(i, n) == ran[i][n] >= 1 /\ n \notin tasks[i] /\ n \notin DOMAIN writes[i]

\* Node n of request i is runnable or has started.
Started(i, n) == n \in tasks[i] \/ ran[i][n] >= 1

\* The order of the stages as it shows in a state.
StagesOrdered ==
    \A i \in Inv :
        /\ Started(i, "extraction") => Completed(i, "ocr")
        /\ \A n \in RuleStages : Started(i, n) => Completed(i, "extraction")
        /\ Started(i, "evaluation") => \A n \in RuleStages : Completed(i, n)
        /\ (pc[i] = "running" /\ \E n \in RuleStages : Started(i, n)) =>
               (\A n \in RuleStages : Started(i, n))

\* The step in which rule stages become runnable: it is the end of the
\* step of extraction and it makes exactly the six rule stages runnable.
FanOutStep ==
    \A i \in Inv :
        (tasks[i] \cap RuleStages = {} /\ tasks'[i] \cap RuleStages # {}) =>
            /\ "extraction" \in DOMAIN writes[i]
            /\ tasks'[i] = RuleStages
            /\ \A n \in RuleStages : ran[i][n] = 0

\* The step that ends a successful extraction makes the rule stages
\* runnable.
FanOutOnSuccess ==
    \A i \in Inv :
        ( /\ "extraction" \in DOMAIN writes[i]
          /\ "extracted_data" \in DOMAIN writes[i]["extraction"]
          /\ writes'[i] = << >>
          /\ pc'[i] = "running" ) => tasks'[i] = RuleStages

\* C18: the stages of every invocation are ordered extractText, then
\* extractFields, then the rule stages, then aggregate: extraction never
\* starts before ocr has completed, no rule stage starts before extraction
\* has completed, and once extraction has completed successfully all six
\* rule stages become runnable in one and the same step.
C18_StageOrder ==
    /\ []StagesOrdered
    /\ [][FanOutStep /\ FanOutOnSuccess]_vars

\* Extraction has completed successfully and the six rule stages are
\* runnable, none of them started.
C18_Witness ==
    \E i \in Inv :
        /\ tasks[i] = RuleStages
        /\ \A n \in RuleStages : ran[i][n] = 0
        /\ DictTruthy(state[i].extracted_data)
        /\ ~Truthy(state[i].error)

\* ------------------------------------------------------------------------
\* C19: the detector after an invocation without aggregation
\* ------------------------------------------------------------------------

\* Request i has not computed an evaluation result.
NotAggregated(i) == IsNone(local[i].evaluation)

\* LAST_CLAIM_DATA changes only in the step in which the evaluation_node
\* of some request computes its result, and takes that request's data.
RecordOnlyByAggregation ==
    LAST_CLAIM_DATA' # LAST_CLAIM_DATA =>
        \E i \in Inv :
            /\ ran'[i]["evaluation"] = ran[i]["evaluation"] + 1
            /\ NotAggregated(i) /\ ~NotAggregated(i)'
            /\ LAST_CLAIM_DATA' = state[i].extracted_data

\* C19: an invocation that does not complete aggregation (an extraction
\* stage failed, or the run was aborted) leaves LAST_CLAIM_DATA unchanged:
\* while no request in flight has aggregated, LAST_CLAIM_DATA is the data
\* of the last claim that was evaluated and answered with a final result,
\* and only the step of an aggregation changes it.
C19_UnchangedWithoutAggregation ==
    /\ []((\A i \in Inv : NotAggregated(i)) => LAST_CLAIM_DATA = completed)
    /\ [][RecordOnlyByAggregation]_vars

\* After a claim was evaluated, a later request has ended without
\* aggregation and the detector still holds the evaluated claim.
C19_Witness ==
    \E i \in Inv :
        /\ pc[i] = "done"
        /\ NotAggregated(i)
        /\ ~IsNone(completed)
        /\ LAST_CLAIM_DATA = completed
        /\ \E k \in 1..Len(response[i]) : "error" \in DOMAIN response[i][k]

\* ------------------------------------------------------------------------
\* C20: the extracted data is not modified by the rule stages
\* ------------------------------------------------------------------------

\* The extracted data is what the extraction returned, wherever it is
\* held: in the graph state, in the caller's copy, in the detector and in
\* the responses; the rule stages write nothing but rule_results.
ExtractedDataIntact ==
    /\ LAST_CLAIM_DATA \in ExtractionOutcomes
    /\ \A i \in Inv :
        /\ state[i].extracted_data \in ExtractionOutcomes
        /\ local[i].extracted_data \in ExtractionOutcomes
        /\ ~IsNone(state[i].extracted_data) =>
               local[i].extracted_data = state[i].extracted_data
        /\ \A n \in RuleStages \cap DOMAIN writes[i] :
               DOMAIN writes[i][n] = {"rule_results"}
        /\ \A k \in 1..Len(response[i]) :
               "final_result" \in DOMAIN response[i][k] =>
                   response[i][k].final_result.extracted_data = local[i].extracted_data

\* The BR006 verdict of a request is the one rule_br006_node gives for
\* any other isDuplicate value in the extracted data; an isDuplicate of
\* true supplied by the extraction does not fail a first claim.
Br006IgnoresSupplied ==
    \A i \in Inv :
        Br006Judged(i) =>
            /\ \A b \in {None, Bool(TRUE), Bool(FALSE), Str("true")} :
                   rule_br006_node(
                       [state[i] EXCEPT !.extracted_data =
                           DictSet(@, "isDuplicate", b)],
                       completed).ret.rule_results[1] = Br006Verdict(i)
            /\ Br006Verdict(i).actual \in {Bool(TRUE), Bool(FALSE)}
            /\ IsNone(completed) =>
                   Br006Verdict(i).passed /\ Br006Verdict(i).actual = Bool(FALSE)

\* Once a request holds its extracted data, no step changes it while the
\* request lasts.
ExtractedDataKept ==
    \A i \in Inv :
        (~IsNone(state[i].extracted_data) /\ pc'[i] # "idle") =>
            state'[i].extracted_data = state[i].extracted_data

\* C20: no rule stage modifies the extracted field mapping: BR006 puts its
\* isDuplicate into a copy, so the extracted_data the other rule stages
\* see, the detector records and the caller receives is the mapping the
\* extraction returned; and the BR006 verdict depends on the detector
\* state and the claimNumber only, not on an isDuplicate value supplied by
\* the extraction.
C20_ExtractedDataReadOnly ==
    /\ [](ExtractedDataIntact /\ Br006IgnoresSupplied)
    /\ [][ExtractedDataKept]_vars

\* A first claim whose extraction supplied isDuplicate = true has been
\* evaluated: BR006 passed on the computed false, and the data recorded
\* and returned still says true.
C20_Witness ==
    \E i \in Inv :
        /\ ~IsNone(local[i].evaluation)
        /\ state[i].extracted_data.isDuplicate = Bool(TRUE)
        /\ VerdictOf(state[i].rule_results, "BR006").actual = Bool(FALSE)
        /\ VerdictOf(state[i].rule_results, "BR006").passed
        /\ LAST_CLAIM_DATA = ClaimC
        /\ local[i].extracted_data = ClaimC

=============================================================================
